---- MODULE Spec2Model ----
(***************************************************************************)
(* A model of package lrlock: the left-right mutex (LRMutex, LockToken,    *)
(* RLockToken) and the distributed reference counter (refCount) it drains.*)
(* Every atomic operation of the Go code is one step of one goroutine.    *)
(* Writers run setGlobal and readers run getGlobal of ExampleLRMutex.     *)
(***************************************************************************)
EXTENDS Integers, Naturals, Sequences, FiniteSets, Bags, TLC

\* ---------------------------------------------------------------- bounds
NumWriters == 2
NumReaders == 2
\* Calls of Lock() and of RLock() in one run.
MaxWrites == 3
MaxRLocks == 2
\* Calls made on a token that is unissued, exhausted or released, and the
\* calls of Lock() and RLock() in a run that has such calls.
MaxMisuse == 2
MisuseWrites == 1
MisuseRLocks == 1
\* Calls of Lock() in a run checked for liveness.
LiveWrites == 2
\* The platform hook gomaxprocs(): the environment's parallelism.
gomaxprocs == 1
\* Concurrent callers of allocateRefCount, the counters arrays they may make,
\* and the largest value gomaxprocs() returns to them.
NumAllocators == 2
MaxArrays == 3
MaxHint == 2
\* The largest context id getp() returns once the parallelism has grown, and
\* the calls of Lock() and RLock() in a run with such ids.
MaxCtx == 3
GrowWrites == 1
GrowRLocks == 2

Writers == 1..NumWriters
Readers == 1..NumReaders
Allocators == 1..NumAllocators

\* ------------------------------------------------------ program constants
slotsPerCacheLineBits == 4
MaxInt32 == 2147483647
MaxInt16 == 32767

\* A nil *refCount.
NIL == 0

\* ----------------------------------------------------------- bit helpers
RECURSIVE BitOr(_, _)
BitOr(a, b) ==
    IF a = 0 THEN b
    ELSE IF b = 0 THEN a
    ELSE (IF a % 2 = 1 \/ b % 2 = 1 THEN 1 ELSE 0) + 2 * BitOr(a \div 2, b \div 2)

Shr(v, k) == v \div (2 ^ k)
Shl(v, k) == v * (2 ^ k)

\* v--; v |= v>>1; ... v |= v>>16; v++
roundNearestPowerOf2(v) ==
    LET v0 == v - 1
        v1 == BitOr(v0, Shr(v0, 1))
        v2 == BitOr(v1, Shr(v1, 2))
        v3 == BitOr(v2, Shr(v2, 4))
        v4 == BitOr(v3, Shr(v3, 8))
        v5 == BitOr(v4, Shr(v4, 16))
    IN  IF v0 < 0 THEN 0 ELSE v5 + 1

\* The context ids getp() can return.
getp == 0..(gomaxprocs - 1)

\* atomic.AddInt32: two's complement wrap-around.
AddInt32(v, d) ==
    LET s == v + d
    IN  IF s > MaxInt32 THEN s - 2 ^ 32
        ELSE IF s < -MaxInt32 - 1 THEN s + 2 ^ 32
        ELSE s

\* ------------------------------------------------------------- refCount
\* rc is a refCount value [pbits, offset].
maxPid(rc) == 2 ^ rc.pbits - 1

\* idxForP without the instance's offset.
idxForP_nooffset(rc, p) == Shl(p % (maxPid(rc) + 1), slotsPerCacheLineBits)

idxForP(rc, p) == Shl(p % (maxPid(rc) + 1), slotsPerCacheLineBits) + rc.offset

\* pbits as allocateRefCount computes it.
allocPbits == roundNearestPowerOf2(gomaxprocs + 1)

countersLen == Shl(2 ^ allocPbits, slotsPerCacheLineBits)

VARIABLES
    state,      \* LRMutex.state: bit 0 versionIndex, bit 1 leftRight
    wmu,        \* LRMutex.wmu: TRUE when locked
    refCounts,  \* LRMutex.refCounts: slot -> refCount object
    rcs,        \* the refCount objects: id -> [pbits, offset]
    counters,   \* the counters array the two refCounts share
    waitch,     \* refCount.waitch: id -> number of buffered signals (capacity 1)
    global,     \* the two copies of the protected datum
    wpc,        \* writer: position
    wtok,       \* writer: its LockToken variable
    wst,        \* writer: Next()'s local state
    wphase,     \* writer: which drain of Next() runs (1 or 2)
    wi,         \* writer: loop index of wait() and clear()
    wpend,      \* writer: wait()'s pendingSlots
    wval,       \* writer: the value setGlobal writes
    widx,       \* writer: the last result of Idx() called outside setGlobal
    wrets,      \* writer: what Next() has returned on the current token
    rpc,        \* reader: position
    rtok,       \* reader: its RLockToken variable
    rrc,        \* reader: RLock()'s local rc
    rtk,        \* reader: RLock()'s local tok
    rw1,        \* reader: the first word read of the datum
    rgot,       \* reader: the two words of the datum getGlobal read
    rdone,      \* reader: completed writes when its RLock() started
    ridx,       \* reader: the last result of Idx() called outside getGlobal
    nlock,      \* Lock() calls so far
    nrlock,     \* RLock() calls so far
    ndone,      \* writes fully completed so far
    nmisuse,    \* calls on an unissued, exhausted or released token so far
    preflip,    \* registrations acquired before the last leftRight flip, unreleased
    waited,     \* the refCounts wait() has been called on
    pool,       \* refCountPool: the bag of pooled refCount values
    handed,     \* the bag of refCount values allocateRefCount has returned
    arrlen,     \* the counters arrays made so far: array id -> length
    alloc       \* allocator: position and locals of its allocateRefCount call

vars == <<state, wmu, refCounts, rcs, counters, waitch, global,
          wpc, wtok, wst, wphase, wi, wpend, wval, widx, wrets,
          rpc, rtok, rrc, rtk, rw1, rgot, rdone, ridx,
          nlock, nrlock, ndone, nmisuse, preflip, waited,
          pool, handed, arrlen, alloc>>

lockVars == <<state, wmu, refCounts, rcs, counters, waitch>>
writerVars == <<wpc, wtok, wst, wphase, wi, wpend, wval, widx, wrets>>
readerVars == <<rpc, rtok, rrc, rtk, rw1, rgot, rdone, ridx>>
countVars == <<nlock, nrlock, ndone, nmisuse>>
allocVars == <<pool, handed, arrlen, alloc>>

\* A refCount value as the pool holds it: [arr, pbits, offset], arr naming the
\* counters array. NilRc is the nil *refCount.
NilRc == [arr |-> 0, pbits |-> 0, offset |-> 0]

\* The zero values of the two token types.
ZeroLockToken == [nonzero |-> FALSE, startIdx |-> 0, incrs |-> 0]
ZeroRLockToken == [idx |-> 0, tok |-> 0, rc |-> NIL]

\* LRMutex.init: two allocateRefCount(nil) calls on an empty pool. The first
\* makes the counters array and takes offset 0, the second takes the pooled
\* copy with offset 1 and puts back a copy with offset 2.
Init ==
    /\ state = 0
    /\ wmu = FALSE
    /\ refCounts = [k \in 0..1 |-> k + 1]
    /\ rcs = [id \in 1..2 |-> [pbits |-> allocPbits, offset |-> id - 1]]
    /\ counters = [i \in 0..(countersLen - 1) |-> 0]
    /\ waitch = [id \in 1..2 |-> 0]
    /\ global = [i \in 0..1 |-> 0]
    /\ wpc = [w \in Writers |-> "idle"]
    /\ wtok = [w \in Writers |-> ZeroLockToken]
    /\ wst = [w \in Writers |-> 0]
    /\ wphase = [w \in Writers |-> 0]
    /\ wi = [w \in Writers |-> 0]
    /\ wpend = [w \in Writers |-> 0]
    /\ wval = [w \in Writers |-> 0]
    /\ widx = [w \in Writers |-> 0]
    /\ wrets = [w \in Writers |-> <<>>]
    /\ rpc = [r \in Readers |-> "idle"]
    /\ rtok = [r \in Readers |-> ZeroRLockToken]
    /\ rrc = [r \in Readers |-> NIL]
    /\ rtk = [r \in Readers |-> 0]
    /\ rw1 = [r \in Readers |-> 0]
    /\ rgot = [r \in Readers |-> <<0, 0>>]
    /\ rdone = [r \in Readers |-> 0]
    /\ ridx = [r \in Readers |-> 0]
    /\ nlock = 0
    /\ nrlock = 0
    /\ ndone = 0
    /\ nmisuse = 0
    /\ preflip = {}
    /\ waited = {}
    /\ pool = SetToBag({[arr |-> 1, pbits |-> allocPbits, offset |-> 2]})
    /\ handed = SetToBag({[arr |-> 1, pbits |-> allocPbits, offset |-> o] : o \in 0..1})
    /\ arrlen = <<countersLen>>
    /\ alloc = [a \in Allocators |->
                  [pc |-> "idle", hint |-> 0, pbits |-> 0, got |-> NilRc, ret |-> NilRc]]

\* ------------------------------------------------------------ LRMutex.Lock
\* setGlobal calls Lock() on a token variable that is unissued or exhausted.
Lock_call(w) ==
    /\ wpc[w] = "idle"
    /\ nlock < MaxWrites
    /\ wpc' = [wpc EXCEPT ![w] = "lk_wmu"]
    /\ nlock' = nlock + 1
    /\ UNCHANGED <<lockVars, global, wtok, wst, wphase, wi, wpend, wval, widx, wrets,
                   readerVars, nrlock, ndone, nmisuse, preflip, waited, allocVars>>

\* Lock() that does not wait for the writer gate.
Lock_wmu_nogate(w) ==
    /\ wpc[w] = "lk_wmu"
    /\ wmu' = TRUE
    /\ wpc' = [wpc EXCEPT ![w] = "lk_load"]
    /\ wval' = [wval EXCEPT ![w] = ndone + 1]
    /\ UNCHANGED <<state, refCounts, rcs, counters, waitch, global,
                   wtok, wst, wphase, wi, wpend, widx, wrets,
                   readerVars, nlock, nrlock, ndone, nmisuse, preflip, waited, allocVars>>

\* l.wmu.Lock()
Lock_wmu(w) ==
    /\ wpc[w] = "lk_wmu"
    /\ ~wmu
    /\ wmu' = TRUE
    /\ wpc' = [wpc EXCEPT ![w] = "lk_load"]
    /\ wval' = [wval EXCEPT ![w] = ndone + 1]
    /\ UNCHANGED <<state, refCounts, rcs, counters, waitch, global,
                   wtok, wst, wphase, wi, wpend, widx, wrets,
                   readerVars, nlock, nrlock, ndone, nmisuse, preflip, waited, allocVars>>

\* leftRight := atomic.LoadInt32(&l.state) >> 1; return LockToken{...}
Lock_load(w) ==
    /\ wpc[w] = "lk_load"
    /\ wtok' = [wtok EXCEPT ![w] =
                  [nonzero |-> TRUE,
                   startIdx |-> (Shr(state, 1) + 1) % 2,
                   incrs |-> 0]]
    /\ wrets' = [wrets EXCEPT ![w] = <<>>]
    /\ wpc' = [wpc EXCEPT ![w] = "loop"]
    /\ UNCHANGED <<lockVars, global, wst, wphase, wi, wpend, wval, widx,
                   readerVars, nlock, nrlock, ndone, nmisuse, preflip, waited, allocVars>>

\* ---------------------------------------------------------- LockToken.Idx
\* Idx() without the check for an exhausted token.
LockToken_Idx_panics_unexhausted(tok) ==
    \/ ~tok.nonzero
    \/ tok.incrs = 0

LockToken_Idx_panics(tok) ==
    \/ ~tok.nonzero
    \/ tok.incrs = 0
    \/ tok.incrs > 2

\* Idx() that does not follow the token's steps.
LockToken_Idx_nostep(tok) == tok.startIdx % 2

\* int((w.startIdx + w.incrs - 1)) % 2, in byte arithmetic
LockToken_Idx(tok) == ((tok.startIdx + tok.incrs - 1) % 256) % 2

\* ---------------------------------------------------------- LockToken.Next
\* Next() without the check for an exhausted token.
Next_panics_unexhausted(tok) == ~tok.nonzero

Next_panics(tok) ==
    \/ ~tok.nonzero
    \/ tok.incrs >= 3

\* The part of Next() before its first atomic operation.
Next_entry(w) ==
    LET tok == wtok[w] IN
    IF Next_panics(tok)
    THEN /\ wpc' = [wpc EXCEPT ![w] = "panicked"]
         /\ wrets' = [wrets EXCEPT ![w] = Append(@, "panic")]
         /\ UNCHANGED <<lockVars, global, wtok, wst, wphase, wi, wpend, wval, widx,
                        readerVars, nlock, nrlock, ndone, preflip, waited, allocVars>>
    ELSE IF tok.incrs = 0
    THEN /\ wtok' = [wtok EXCEPT ![w].incrs = 1]
         /\ wrets' = [wrets EXCEPT ![w] = Append(@, "true")]
         /\ wpc' = [wpc EXCEPT ![w] = "body"]
         /\ UNCHANGED <<lockVars, global, wst, wphase, wi, wpend, wval, widx,
                        readerVars, nlock, nrlock, ndone, preflip, waited, allocVars>>
    ELSE IF tok.incrs = 2
    THEN /\ wtok' = [wtok EXCEPT ![w].incrs = 3]
         /\ wmu' = FALSE
         /\ wrets' = [wrets EXCEPT ![w] = Append(@, "false")]
         /\ wpc' = [wpc EXCEPT ![w] = "idle"]
         /\ ndone' = wval[w]
         /\ UNCHANGED <<state, refCounts, rcs, counters, waitch, global,
                        wst, wphase, wi, wpend, wval, widx,
                        readerVars, nlock, nrlock, preflip, waited, allocVars>>
    ELSE /\ wpc' = [wpc EXCEPT ![w] = "n_load"]
         /\ UNCHANGED <<lockVars, global, wtok, wst, wphase, wi, wpend, wval, widx, wrets,
                        readerVars, nlock, nrlock, ndone, preflip, waited, allocVars>>

\* state := atomic.LoadInt32(&w.l.state)
Next_load(w) ==
    /\ wpc[w] = "n_load"
    /\ wst' = [wst EXCEPT ![w] = state]
    /\ wpc' = [wpc EXCEPT ![w] = "n_toggleLR"]
    /\ UNCHANGED <<lockVars, global, wtok, wphase, wi, wpend, wval, widx, wrets,
                   readerVars, nlock, nrlock, ndone, nmisuse, preflip, waited, allocVars>>

\* The registrations a reader holds: acquire() done, RUnlock() not yet called.
Registered == {r \in Readers : rpc[r] \in {"rl_load1", "held", "mid", "got"}}

\* The slot the versionIndex bit itself selects.
nonVersionIndex_same(st) == st % 2

\* rc := &w.l.refCounts[(state&1+1)%2]
nonVersionIndex(st) == ((st % 2) + 1) % 2
drained(w) == refCounts[nonVersionIndex(wst[w])]

\* Toggle leftRight, then enter waitForNonVersionIndex(state).
Next_toggleLeftRight(w) ==
    /\ wpc[w] = "n_toggleLR"
    /\ LET newLeftRight == (Shr(wst[w], 1) + 1) % 2
           newState == BitOr(Shl(newLeftRight, 1), wst[w] % 2)
       IN  /\ state' = newState
           /\ wst' = [wst EXCEPT ![w] = newState]
    /\ wphase' = [wphase EXCEPT ![w] = 1]
    /\ wi' = [wi EXCEPT ![w] = 1]
    /\ wpend' = [wpend EXCEPT ![w] = 0]
    /\ wpc' = [wpc EXCEPT ![w] = "w_scan"]
    /\ preflip' = Registered
    /\ waited' = waited \cup {refCounts[nonVersionIndex(wst'[w])]}
    /\ UNCHANGED <<wmu, refCounts, rcs, counters, waitch, global,
                   wtok, wval, widx, wrets, readerVars, nlock, nrlock, ndone, nmisuse,
                   allocVars>>

\* wait() that also sleeps when the last release came before the add.
wait_sleeps_lost(new) == new >= 0

\* wait() sleeps on waitch when the aggregation slot is positive after the add.
wait_sleeps(new) == new > 0

\* wait(): one iteration of the scan over shards 1..maxPid.
wait_scan(w) ==
    /\ wpc[w] = "w_scan"
    /\ LET rc == rcs[drained(w)]
           idx == idxForP(rc, wi[w])
           new == AddInt32(counters[idx], -1)
       IN  IF wi[w] <= maxPid(rc)
           THEN /\ counters' = [counters EXCEPT ![idx] = new]
                /\ wpend' = [wpend EXCEPT ![w] = IF new >= 0 THEN @ + 1 ELSE @]
                /\ wi' = [wi EXCEPT ![w] = @ + 1]
                /\ UNCHANGED wpc
           ELSE /\ wpc' = [wpc EXCEPT ![w] = IF wpend[w] > 0 THEN "w_add" ELSE "c_agg"]
                /\ UNCHANGED <<counters, wpend, wi>>
    /\ UNCHANGED <<state, wmu, refCounts, rcs, waitch, global,
                   wtok, wst, wphase, wval, widx, wrets,
                   readerVars, nlock, nrlock, ndone, nmisuse, preflip, waited, allocVars>>

\* atomic.AddInt32(&r.counters[r.idxForP(0)], pendingSlots) > 0
wait_add(w) ==
    /\ wpc[w] = "w_add"
    /\ LET rc == rcs[drained(w)]
           idx == idxForP(rc, 0)
           new == AddInt32(counters[idx], wpend[w])
       IN  /\ counters' = [counters EXCEPT ![idx] = new]
           /\ wpc' = [wpc EXCEPT ![w] = IF wait_sleeps(new) THEN "w_recv" ELSE "c_agg"]
    /\ UNCHANGED <<state, wmu, refCounts, rcs, waitch, global,
                   wtok, wst, wphase, wi, wpend, wval, widx, wrets,
                   readerVars, nlock, nrlock, ndone, nmisuse, preflip, waited, allocVars>>

\* <-r.waitch
wait_recv(w) ==
    /\ wpc[w] = "w_recv"
    /\ waitch[drained(w)] > 0
    /\ waitch' = [waitch EXCEPT ![drained(w)] = @ - 1]
    /\ wpc' = [wpc EXCEPT ![w] = "c_agg"]
    /\ UNCHANGED <<state, wmu, refCounts, rcs, counters, global,
                   wtok, wst, wphase, wi, wpend, wval, widx, wrets,
                   readerVars, nlock, nrlock, ndone, nmisuse, preflip, waited, allocVars>>

\* allocateRefCount(*rc) with reuse.pbits == pbits: clear() stores 0 in the
\* aggregation slot first.
clear_agg(w) ==
    /\ wpc[w] = "c_agg"
    /\ rcs[drained(w)].pbits = allocPbits
    /\ counters' = [counters EXCEPT ![idxForP(rcs[drained(w)], 0)] = 0]
    /\ wi' = [wi EXCEPT ![w] = 1]
    /\ wpc' = [wpc EXCEPT ![w] = "c_shard"]
    /\ UNCHANGED <<state, wmu, refCounts, rcs, waitch, global,
                   wtok, wst, wphase, wpend, wval, widx, wrets,
                   readerVars, nlock, nrlock, ndone, nmisuse, preflip, waited, allocVars>>

\* clear(): one iteration of the loop over shards 1..maxPid; after the last,
\* *rc = reuse and waitForNonVersionIndex returns.
clear_shard(w) ==
    /\ wpc[w] = "c_shard"
    /\ LET rc == rcs[drained(w)] IN
       IF wi[w] <= maxPid(rc)
       THEN /\ counters' = [counters EXCEPT ![idxForP(rc, wi[w])] = 0]
            /\ wi' = [wi EXCEPT ![w] = @ + 1]
            /\ UNCHANGED <<wpc, refCounts>>
       ELSE /\ refCounts' = [refCounts EXCEPT ![nonVersionIndex(wst[w])] = drained(w)]
            /\ wpc' = [wpc EXCEPT ![w] = IF wphase[w] = 1 THEN "n_toggleVI" ELSE "n_ret"]
            /\ UNCHANGED <<counters, wi>>
    /\ UNCHANGED <<state, wmu, rcs, waitch, global,
                   wtok, wst, wphase, wpend, wval, widx, wrets,
                   readerVars, nlock, nrlock, ndone, nmisuse, preflip, waited, allocVars>>

\* The second drain entered without the versionIndex flip being stored.
Next_toggleVersionIndex_nostore(w) ==
    /\ wpc[w] = "n_toggleVI"
    /\ wphase' = [wphase EXCEPT ![w] = 2]
    /\ wi' = [wi EXCEPT ![w] = 1]
    /\ wpend' = [wpend EXCEPT ![w] = 0]
    /\ wpc' = [wpc EXCEPT ![w] = "w_scan"]
    /\ waited' = waited \cup {refCounts[nonVersionIndex(wst[w])]}
    /\ UNCHANGED <<state, wmu, refCounts, rcs, counters, waitch, global,
                   wtok, wst, wval, widx, wrets, readerVars, nlock, nrlock, ndone, nmisuse,
                   preflip, allocVars>>

\* Toggle versionIndex, then enter the second waitForNonVersionIndex(state).
Next_toggleVersionIndex(w) ==
    /\ wpc[w] = "n_toggleVI"
    /\ LET newVersionIndex == ((wst[w] % 2) + 1) % 2
           newState == BitOr(2 * (Shr(wst[w], 1) % 2), newVersionIndex)
       IN  /\ state' = newState
           /\ wst' = [wst EXCEPT ![w] = newState]
    /\ wphase' = [wphase EXCEPT ![w] = 2]
    /\ wi' = [wi EXCEPT ![w] = 1]
    /\ wpend' = [wpend EXCEPT ![w] = 0]
    /\ wpc' = [wpc EXCEPT ![w] = "w_scan"]
    /\ waited' = waited \cup {refCounts[nonVersionIndex(wst'[w])]}
    /\ UNCHANGED <<wmu, refCounts, rcs, counters, waitch, global,
                   wtok, wval, widx, wrets, readerVars, nlock, nrlock, ndone, nmisuse,
                   preflip, allocVars>>

\* w.incrs++; return w.incrs < 3
Next_return(w) ==
    /\ wpc[w] = "n_ret"
    /\ LET n == (wtok[w].incrs + 1) % 256 IN
       /\ wtok' = [wtok EXCEPT ![w].incrs = n]
       /\ wrets' = [wrets EXCEPT ![w] = Append(@, IF n < 3 THEN "true" ELSE "false")]
       /\ wpc' = [wpc EXCEPT ![w] = IF n < 3 THEN "body" ELSE "idle"]
    /\ wst' = [wst EXCEPT ![w] = 0]
    /\ wphase' = [wphase EXCEPT ![w] = 0]
    /\ wi' = [wi EXCEPT ![w] = 0]
    /\ wpend' = [wpend EXCEPT ![w] = 0]
    /\ UNCHANGED <<lockVars, global, wval, widx, readerVars, nlock, nrlock, ndone, nmisuse, preflip, waited, allocVars>>

\* setGlobal's loop body: global[w.Idx()] = s
setGlobal_body(w) ==
    /\ wpc[w] = "body"
    /\ IF LockToken_Idx_panics(wtok[w])
       THEN /\ wpc' = [wpc EXCEPT ![w] = "panicked"]
            /\ UNCHANGED global
       ELSE /\ global' = [global EXCEPT ![LockToken_Idx(wtok[w])] = wval[w]]
            /\ wpc' = [wpc EXCEPT ![w] = "loop"]
    /\ UNCHANGED <<lockVars, wtok, wst, wphase, wi, wpend, wval, widx, wrets,
                   readerVars, nlock, nrlock, ndone, nmisuse, preflip, waited, allocVars>>

\* ----------------------------------------------------------- LRMutex.RLock
\* getGlobal calls RLock(): state0 := atomic.LoadInt32(&l.state);
\* rc := l.refCounts[state0&1]
RLock_load0(r) ==
    /\ rpc[r] = "idle"
    /\ nrlock < MaxRLocks
    /\ nrlock' = nrlock + 1
    /\ rrc' = [rrc EXCEPT ![r] = refCounts[state % 2]]
    /\ rdone' = [rdone EXCEPT ![r] = ndone]
    /\ rpc' = [rpc EXCEPT ![r] = "rl_acquire"]
    /\ UNCHANGED <<lockVars, global, writerVars, rtok, rtk, rw1, rgot, ridx,
                   nlock, ndone, nmisuse, preflip, waited, allocVars>>

\* acquire() that takes shard getp() instead of shard getp() + 1.
acquire_at_noshift(r, p) ==
    /\ rpc[r] = "rl_acquire"
    /\ LET idx == idxForP(rcs[rrc[r]], p)
           new == AddInt32(counters[idx], 1)
       IN  /\ counters' = [counters EXCEPT ![idx] = new]
           /\ rtk' = [rtk EXCEPT ![r] = idx]
           /\ rpc' = [rpc EXCEPT ![r] =
                        IF new = MaxInt32 \/ idx > MaxInt16
                        THEN "panicked" ELSE "rl_load1"]
    /\ UNCHANGED <<state, wmu, refCounts, rcs, waitch, global, writerVars,
                   rtok, rrc, rw1, rgot, rdone, ridx, nlock, nrlock, ndone, nmisuse,
                   preflip, waited, allocVars>>

\* tok := rc.acquire() with getp() returning p, and the int16 check on tok
acquire_at(r, p) ==
    /\ rpc[r] = "rl_acquire"
    /\ LET idx == idxForP(rcs[rrc[r]], p + 1)
           new == AddInt32(counters[idx], 1)
       IN  /\ counters' = [counters EXCEPT ![idx] = new]
           /\ rtk' = [rtk EXCEPT ![r] = idx]
           /\ rpc' = [rpc EXCEPT ![r] =
                        IF new = MaxInt32 \/ idx > MaxInt16
                        THEN "panicked" ELSE "rl_load1"]
    /\ UNCHANGED <<state, wmu, refCounts, rcs, waitch, global, writerVars,
                   rtok, rrc, rw1, rgot, rdone, ridx, nlock, nrlock, ndone, nmisuse, preflip, waited, allocVars>>

acquire(r) == \E p \in getp : acquire_at(r, p)

\* acquire() after the parallelism has grown: getp() returns ids up to MaxCtx
\* while the refCount keeps the pbits of its allocation.
acquire_grown(r) == \E p \in 0..MaxCtx : acquire_at(r, p)

\* state1 := atomic.LoadInt32(&l.state); return RLockToken{...}
RLock_load1(r) ==
    /\ rpc[r] = "rl_load1"
    /\ rtok' = [rtok EXCEPT ![r] =
                  [idx |-> Shr(state, 1) % 2, tok |-> rtk[r], rc |-> rrc[r]]]
    /\ rrc' = [rrc EXCEPT ![r] = NIL]
    /\ rtk' = [rtk EXCEPT ![r] = 0]
    /\ rpc' = [rpc EXCEPT ![r] = "held"]
    /\ UNCHANGED <<lockVars, global, writerVars, rw1, rgot, rdone, ridx,
                   nlock, nrlock, ndone, nmisuse, preflip, waited, allocVars>>

\* ---------------------------------------------------------- RLockToken.Idx
\* The token checks without the one for a zero token.
RLockToken_panics_nonnil(tok) == tok.tok = -1

RLockToken_panics(tok) ==
    \/ tok.rc = NIL
    \/ tok.tok = -1

RLockToken_Idx(tok) == tok.idx

\* getGlobal: g := global[l.Idx()]. A Go string is two words, read one after
\* the other; a write of the copy in between leaves g torn.
getGlobal_read1(r) ==
    /\ rpc[r] = "held"
    /\ IF RLockToken_panics(rtok[r])
       THEN /\ rpc' = [rpc EXCEPT ![r] = "panicked"]
            /\ UNCHANGED rw1
       ELSE /\ rw1' = [rw1 EXCEPT ![r] = global[RLockToken_Idx(rtok[r])]]
            /\ rpc' = [rpc EXCEPT ![r] = "mid"]
    /\ UNCHANGED <<lockVars, global, writerVars, rtok, rrc, rtk, rgot, rdone, ridx,
                   nlock, nrlock, ndone, nmisuse, preflip, waited, allocVars>>

getGlobal_read2(r) ==
    /\ rpc[r] = "mid"
    /\ rgot' = [rgot EXCEPT ![r] = <<rw1[r], global[RLockToken_Idx(rtok[r])]>>]
    /\ rw1' = [rw1 EXCEPT ![r] = 0]
    /\ rpc' = [rpc EXCEPT ![r] = "got"]
    /\ UNCHANGED <<lockVars, global, writerVars, rtok, rrc, rtk, rdone, ridx,
                   nlock, nrlock, ndone, nmisuse, preflip, waited, allocVars>>

\* ------------------------------------------------------ RLockToken.RUnlock
\* RUnlock has a value receiver: r.tok = -1 is stored in the method's copy of
\* the token, and the caller's token variable stays as it was.
RUnlock_return(r) ==
    /\ rpc' = [rpc EXCEPT ![r] = "idle"]
    /\ rgot' = [rgot EXCEPT ![r] = <<0, 0>>]
    /\ rdone' = [rdone EXCEPT ![r] = 0]
    /\ UNCHANGED <<rtok, ridx>>

\* The checks of RUnlock and the first atomic operation of release(idx).
RUnlock(r) ==
    /\ IF RLockToken_panics(rtok[r])
       THEN /\ rpc' = [rpc EXCEPT ![r] = "panicked"]
            /\ UNCHANGED <<counters, rtok, rgot, rdone, ridx, preflip>>
       ELSE LET idx == rtok[r].tok
                new == AddInt32(counters[idx], -1)
            IN  /\ counters' = [counters EXCEPT ![idx] = new]
                /\ preflip' = preflip \ {r}
                /\ IF new >= 0
                   THEN RUnlock_return(r)
                   ELSE /\ rpc' = [rpc EXCEPT ![r] = "rel_agg"]
                        /\ UNCHANGED <<rtok, rgot, rdone, ridx>>
    /\ UNCHANGED <<state, wmu, refCounts, rcs, waitch, global, writerVars,
                   rrc, rtk, rw1, nlock, nrlock, ndone, waited, allocVars>>

\* release() that also signals when no waiter has armed the aggregation slot.
release_signals_unarmed(new) == new <= 0

\* release() signals the waiter when the aggregation slot reaches 0.
release_signals(new) == new = 0

\* atomic.AddInt32(&r.counters[r.idxForP(0)], -1) != 0
release_agg(r) ==
    /\ rpc[r] = "rel_agg"
    /\ LET idx == idxForP(rcs[rtok[r].rc], 0)
           new == AddInt32(counters[idx], -1)
       IN  /\ counters' = [counters EXCEPT ![idx] = new]
           /\ IF ~release_signals(new)
              THEN RUnlock_return(r)
              ELSE /\ rpc' = [rpc EXCEPT ![r] = "rel_send"]
                   /\ UNCHANGED <<rtok, rgot, rdone, ridx>>
    /\ UNCHANGED <<state, wmu, refCounts, rcs, waitch, global, writerVars,
                   rrc, rtk, rw1, nlock, nrlock, ndone, nmisuse, preflip, waited, allocVars>>

\* r.waitch <- struct{}{}
release_send(r) ==
    /\ rpc[r] = "rel_send"
    /\ waitch[rtok[r].rc] < 1
    /\ waitch' = [waitch EXCEPT ![rtok[r].rc] = @ + 1]
    /\ RUnlock_return(r)
    /\ UNCHANGED <<state, wmu, refCounts, rcs, counters, global, writerVars,
                   rrc, rtk, rw1, nlock, nrlock, ndone, nmisuse, preflip, waited, allocVars>>

\* ----------------------------------- calls outside the example's protocol
\* w.Idx() called by the client between two calls of the protocol.
LockToken_Idx_call(w) ==
    /\ wpc[w] \in {"idle", "loop"}
    /\ nmisuse < MaxMisuse
    /\ nmisuse' = nmisuse + 1
    /\ IF LockToken_Idx_panics(wtok[w])
       THEN /\ wpc' = [wpc EXCEPT ![w] = "panicked"]
            /\ UNCHANGED widx
       ELSE /\ widx' = [widx EXCEPT ![w] = LockToken_Idx(wtok[w])]
            /\ UNCHANGED wpc
    /\ UNCHANGED <<lockVars, global, wtok, wst, wphase, wi, wpend, wval, wrets,
                   readerVars, nlock, nrlock, ndone, preflip, waited, allocVars>>

\* l.Idx() called by the client on a token it does not hold.
RLockToken_Idx_call(r) ==
    /\ rpc[r] = "idle"
    /\ nmisuse < MaxMisuse
    /\ nmisuse' = nmisuse + 1
    /\ IF RLockToken_panics(rtok[r])
       THEN /\ rpc' = [rpc EXCEPT ![r] = "panicked"]
            /\ UNCHANGED ridx
       ELSE /\ ridx' = [ridx EXCEPT ![r] = RLockToken_Idx(rtok[r])]
            /\ UNCHANGED rpc
    /\ UNCHANGED <<lockVars, global, writerVars, rtok, rrc, rtk, rw1, rgot, rdone,
                   nlock, nrlock, ndone, preflip, waited, allocVars>>

\* ------------------------------------------------------- allocateRefCount
\* allocateRefCount(reuse) with reuse nil (LRMutex.init) or of another width:
\* pbits := uint(roundNearestPowerOf2(gomaxprocs() + 1)), gomaxprocs()
\* returning P. A call may end in a new counters array.
allocateRefCount_call(a) ==
    /\ alloc[a].pc = "idle"
    /\ Len(arrlen) + Cardinality({b \in Allocators : alloc[b].pc # "idle"}) < MaxArrays
    /\ \E P \in 1..MaxHint :
         alloc' = [alloc EXCEPT ![a] =
                     [pc |-> "get", hint |-> P, pbits |-> roundNearestPowerOf2(P + 1),
                      got |-> NilRc, ret |-> NilRc]]
    /\ UNCHANGED <<lockVars, global, writerVars, readerVars, countVars, preflip, waited,
                   pool, handed, arrlen>>

\* pooledRc, _ := refCountPool.Get().(*refCount): sync.Pool hands out one of
\* its items, or nil (it may be empty, or ignore what it holds).
refCountPool_Get(a) ==
    /\ alloc[a].pc = "get"
    /\ \E e \in BagToSet(pool) \cup {NilRc} :
         /\ pool' = IF e = NilRc THEN pool ELSE pool (-) SetToBag({e})
         /\ alloc' = [alloc EXCEPT ![a].pc = "got", ![a].got = e]
    /\ UNCHANGED <<lockVars, global, writerVars, readerVars, countVars, preflip, waited,
                   handed, arrlen>>

\* pooledRc != nil && pooledRc.pbits == pbits
pooledFits(a) == alloc[a].got # NilRc /\ alloc[a].got.pbits = alloc[a].pbits

\* The pool path that puts the entry back without advancing its offset.
allocateRefCount_pooled_sameoffset(a) ==
    /\ alloc[a].pc = "got"
    /\ pooledFits(a)
    /\ LET pooledRc == alloc[a].got IN
       /\ pool' = IF pooledRc.offset < Shl(1, slotsPerCacheLineBits) - 1
                  THEN pool (+) SetToBag({pooledRc})
                  ELSE pool
       /\ handed' = handed (+) SetToBag({pooledRc})
       /\ alloc' = [alloc EXCEPT ![a].pc = "idle", ![a].ret = pooledRc]
    /\ UNCHANGED <<lockVars, global, writerVars, readerVars, countVars, preflip, waited, arrlen>>

\* The pool entry fits: put back a copy with the next offset if there is one,
\* and return the entry.
allocateRefCount_pooled(a) ==
    /\ alloc[a].pc = "got"
    /\ pooledFits(a)
    /\ LET pooledRc == alloc[a].got IN
       /\ pool' = IF pooledRc.offset < Shl(1, slotsPerCacheLineBits) - 1
                  THEN pool (+) SetToBag({[pooledRc EXCEPT !.offset = @ + 1]})
                  ELSE pool
       /\ handed' = handed (+) SetToBag({pooledRc})
       /\ alloc' = [alloc EXCEPT ![a].pc = "idle", ![a].ret = pooledRc]
    /\ UNCHANGED <<lockVars, global, writerVars, readerVars, countVars, preflip, waited, arrlen>>

\* No fitting pool entry: make a counters array, push a copy with offset 1 and
\* return the refCount with offset 0.
allocateRefCount_new(a) ==
    /\ alloc[a].pc = "got"
    /\ ~pooledFits(a)
    /\ LET newRc == [arr |-> Len(arrlen) + 1, pbits |-> alloc[a].pbits, offset |-> 0] IN
       /\ arrlen' = Append(arrlen, Shl(Shl(1, alloc[a].pbits), slotsPerCacheLineBits))
       /\ pool' = pool (+) SetToBag({[newRc EXCEPT !.offset = @ + 1]})
       /\ handed' = handed (+) SetToBag({newRc})
       /\ alloc' = [alloc EXCEPT ![a].pc = "idle", ![a].ret = newRc]
    /\ UNCHANGED <<lockVars, global, writerVars, readerVars, countVars, preflip, waited>>

\* ------------------------------------------------------- specifications
\* The steps of a writer after its call of Lock().
WriterProtocol(w) ==
    \/ Lock_wmu(w)
    \/ Lock_load(w)
    \/ (wpc[w] = "loop" /\ Next_entry(w) /\ UNCHANGED nmisuse)
    \/ Next_load(w)
    \/ Next_toggleLeftRight(w)
    \/ wait_scan(w)
    \/ wait_add(w)
    \/ wait_recv(w)
    \/ clear_agg(w)
    \/ clear_shard(w)
    \/ Next_toggleVersionIndex(w)
    \/ Next_return(w)
    \/ setGlobal_body(w)

\* The steps of a reader after the first load of RLock().
ReaderProtocol(r) ==
    \/ acquire(r)
    \/ RLock_load1(r)
    \/ getGlobal_read1(r)
    \/ getGlobal_read2(r)
    \/ (rpc[r] = "got" /\ RUnlock(r) /\ UNCHANGED nmisuse)
    \/ release_agg(r)
    \/ release_send(r)

WriterStep(w) == Lock_call(w) \/ WriterProtocol(w)
ReaderStep(r) == RLock_load0(r) \/ ReaderProtocol(r)

Next ==
    \/ \E w \in Writers : WriterStep(w)
    \/ \E r \in Readers : ReaderStep(r)

\* The clients follow setGlobal and getGlobal of the example.
Spec == Init /\ [][Next]_vars

\* A client may also call Next() or Idx() on an unissued or exhausted
\* LockToken, and Idx() or RUnlock() on an unissued or released RLockToken.
Misuse ==
    \/ \E w \in Writers :
          /\ wpc[w] = "idle"
          /\ nmisuse < MaxMisuse
          /\ nmisuse' = nmisuse + 1
          /\ Next_entry(w)
    \/ \E w \in Writers : LockToken_Idx_call(w)
    \/ \E r \in Readers :
          /\ rpc[r] = "idle"
          /\ nmisuse < MaxMisuse
          /\ nmisuse' = nmisuse + 1
          /\ RUnlock(r)
    \/ \E r \in Readers : RLockToken_Idx_call(r)

NextMisuse ==
    \/ \E w \in Writers : (nlock < MisuseWrites /\ Lock_call(w))
    \/ \E w \in Writers : WriterProtocol(w)
    \/ \E r \in Readers : (nrlock < MisuseRLocks /\ RLock_load0(r))
    \/ \E r \in Readers : ReaderProtocol(r)
    \/ Misuse

SpecMisuse == Init /\ [][NextMisuse]_vars

\* Every goroutine keeps being scheduled, and a reader that holds a token
\* goes on to release it.
WriterStepLive(w) == (nlock < LiveWrites /\ Lock_call(w)) \/ WriterProtocol(w)

NextLive ==
    \/ \E w \in Writers : WriterStepLive(w)
    \/ \E r \in Readers : ReaderStep(r)

FairSpec ==
    /\ Init
    /\ [][NextLive]_vars
    /\ \A w \in Writers : WF_vars(WriterStepLive(w))
    /\ \A r \in Readers : WF_vars(ReaderStep(r))

\* Other LRMutex instances are initialised concurrently, each call of
\* allocateRefCount seeing its own value of gomaxprocs().
AllocatorStep(a) ==
    \/ allocateRefCount_call(a)
    \/ refCountPool_Get(a)
    \/ allocateRefCount_pooled(a)
    \/ allocateRefCount_new(a)

NextAlloc == \E a \in Allocators : AllocatorStep(a)

SpecAlloc == Init /\ [][NextAlloc]_vars

\* The parallelism has grown since the refCounts were allocated: getp()
\* returns ids up to MaxCtx.
ReaderProtocolGrown(r) ==
    \/ acquire_grown(r)
    \/ RLock_load1(r)
    \/ getGlobal_read1(r)
    \/ getGlobal_read2(r)
    \/ (rpc[r] = "got" /\ RUnlock(r) /\ UNCHANGED nmisuse)
    \/ release_agg(r)
    \/ release_send(r)

NextGrow ==
    \/ \E w \in Writers : (nlock < GrowWrites /\ Lock_call(w))
    \/ \E w \in Writers : WriterProtocol(w)
    \/ \E r \in Readers : (nrlock < GrowRLocks /\ RLock_load0(r))
    \/ \E r \in Readers : ReaderProtocolGrown(r)

SpecGrow == Init /\ [][NextGrow]_vars

\* ----------------------------------------------------------------- claims
\* A reader holds an unreleased token: RLock() has returned, RUnlock() is not
\* yet called.
Holding(r) == rpc[r] \in {"held", "mid", "got"}

\* A writer may write the copy named by its Idx(): its token is at step 1 or 2
\* and no Next() call is running on it.
MayWrite(w) == wpc[w] \in {"body", "loop"} /\ wtok[w].incrs \in {1, 2}

\* C1: no reader holds an unreleased token whose Idx() is i while a write
\* token is at a step (1 or 2) whose Idx() is i.
C1_NoReaderOnWrittenCopy ==
    \A r \in Readers, w \in Writers :
        (Holding(r) /\ MayWrite(w)) =>
            RLockToken_Idx(rtok[r]) # LockToken_Idx(wtok[w])

\* C2: when Next() returns from the step 1 -> 2 handoff, no reader whose
\* acquire() completed before the handoff's leftRight flip still holds its
\* registration.
C2_DrainWaitsForEarlierReaders ==
    \A w \in Writers :
        (wpc[w] = "body" /\ wtok[w].incrs = 2) =>
            \A r \in preflip : ~Holding(r)

\* A write token is live from the return of Lock() to its terminal step; a
\* writer is past the gate from l.wmu.Lock() on.
Live(w) == wtok[w].nonzero /\ wtok[w].incrs < 3 /\ wpc[w] # "lk_wmu"
PastGate(w) == wpc[w] = "lk_load" \/ Live(w)

\* C3: at most one write token is live, and no second Lock() is past the
\* writer gate while a token is live.
C3_OneLiveWriteToken ==
    \A w1, w2 \in Writers :
        (w1 # w2 /\ PastGate(w1)) => ~PastGate(w2)

C3_Witness ==
    \E w1, w2 \in Writers :
        /\ wtok[w1].nonzero /\ wtok[w1].incrs = 2 /\ wpc[w1] = "body"
        /\ wpc[w2] = "lk_wmu"

IsPrefix(s, t) == Len(s) <= Len(t) /\ \A i \in 1..Len(s) : s[i] = t[i]

\* C4: on an issued token Next() returns true, true, false in that order, the
\* number of returns being the token's step; a fourth call panics and leaves
\* the state word, the writer gate and the token as they were.
C4_NextSequence ==
    /\ [](\A w \in Writers :
            wtok[w].nonzero =>
                /\ IsPrefix(wrets[w], <<"true", "true", "false", "panic">>)
                /\ Len(wrets[w]) = wtok[w].incrs + (IF wrets[w] # <<>> /\ wrets[w][Len(wrets[w])] = "panic" THEN 1 ELSE 0))
    /\ [][\A w \in Writers :
            (wtok[w].nonzero /\ wtok[w].incrs = 3 /\ Next_entry(w)) =>
                /\ wpc'[w] = "panicked"
                /\ UNCHANGED <<state, wmu, wtok>>]_vars

C4_Witness ==
    \E w \in Writers : wrets[w] = <<"true", "true", "false", "panic">>

\* C5: a reader whose RLock() started after the write of value V completed
\* reads an untorn value that is not older than V, and reads V itself when no
\* writer has been at work since.
C5_RoundTrip ==
    \A r \in Readers :
        (rpc[r] = "got" /\ rdone[r] >= 1) =>
            /\ rgot[r][1] = rgot[r][2]
            /\ rgot[r][1] >= rdone[r]
            /\ (~wmu /\ ndone = rdone[r]) => rgot[r][1] = rdone[r]

InReaderCall(r) == rpc[r] \in {"rl_acquire", "rl_load1", "rel_agg", "rel_send"}

\* C6: every step of a running RLock() or RUnlock() is enabled; a reader at
\* the send on waitch finds the channel empty.
C6_ReadersNeverBlock ==
    \A r \in Readers :
        /\ rpc[r] = "rel_send" => waitch[rtok[r].rc] = 0
        /\ InReaderCall(r) => ENABLED ReaderProtocol(r)

C6_Witness ==
    \E r \in Readers : rpc[r] = "rel_send" /\ waitch[rtok[r].rc] = 0

InHandoff(w) ==
    wpc[w] \in {"n_load", "n_toggleLR", "w_scan", "w_add", "w_recv",
                "c_agg", "c_shard", "n_toggleVI", "n_ret"}

\* C7: a Next() call in the step 1 -> 2 handoff eventually returns, and a
\* Lock() call waiting for the writer gate eventually gets it.
C7_HandoffReturns ==
    \A w \in Writers :
        (InHandoff(w) \/ wpc[w] = "lk_wmu") ~>
            ((wpc[w] = "body" /\ wtok[w].incrs = 2) \/ wpc[w] = "lk_load")

C7_Witness ==
    \E w \in Writers : wpc[w] = "w_recv" /\ waitch[drained(w)] = 0

\* The reader's token variable holds a token that RUnlock() has returned on.
Released(r) == rpc[r] = "idle" /\ rtok[r].rc # NIL

\* C8: RUnlock() on a token that was already released panics and decrements
\* no counter, and Idx() on it panics.
C8_ReleasedTokenIsDead ==
    [][\A r \in Readers :
         /\ (Released(r) /\ RUnlock(r)) =>
                (rpc'[r] = "panicked" /\ counters' = counters)
         /\ (Released(r) /\ RLockToken_Idx_call(r)) => rpc'[r] = "panicked"]_vars

\* C9: Idx() on an issued write token returns an index exactly at steps 1 and
\* 2; at steps 0 and 3 it panics and leaves the token, the state word and the
\* writer gate as they were.
C9_IdxOnlyAtSteps1And2 ==
    [][\A w \in Writers :
         (wtok[w].nonzero /\ LockToken_Idx_call(w)) =>
            IF wtok[w].incrs \in {1, 2}
            THEN /\ wpc'[w] = wpc[w]
                 /\ widx'[w] = (wtok[w].startIdx + wtok[w].incrs - 1) % 2
            ELSE /\ wpc'[w] = "panicked"
                 /\ UNCHANGED <<wtok, state, wmu>>]_vars

C9_Witness ==
    \E w \in Writers :
        /\ wpc[w] = "panicked"
        /\ wtok[w].nonzero /\ wtok[w].incrs = 3
        /\ wrets[w] = <<"true", "true", "false">>

\* C10: Next() and Idx() on a zero LockToken, and Idx() and RUnlock() on a
\* zero RLockToken, panic without changing any state word, writer gate,
\* counter or token.
C10_ZeroTokens ==
    [][/\ \A w \in Writers :
            (~wtok[w].nonzero /\ (Next_entry(w) \/ LockToken_Idx_call(w))) =>
                (wpc'[w] = "panicked" /\ UNCHANGED <<lockVars, wtok, rtok>>)
       /\ \A r \in Readers :
            (rtok[r].rc = NIL /\ (RUnlock(r) \/ RLockToken_Idx_call(r))) =>
                (rpc'[r] = "panicked" /\ UNCHANGED <<lockVars, wtok, rtok>>)]_vars

C10_Witness ==
    /\ \E w \in Writers : wpc[w] = "panicked" /\ ~wtok[w].nonzero
    /\ \E r \in Readers : rpc[r] = "panicked" /\ rtok[r].rc = NIL

\* The leftRight bit of the state word.
leftRight == Shr(state, 1) % 2

\* C11: Idx() at step 1 is startIdx, the opposite of the leftRight bit Lock()
\* read under the writer gate; Idx() at step 2 is 1 - startIdx, and once the
\* second Next() has returned the leftRight bit equals startIdx.
C11_IdxFollowsStartIdx ==
    \A w \in Writers :
        /\ (wpc[w] = "loop" /\ wtok[w].nonzero /\ wtok[w].incrs = 0) =>
               wtok[w].startIdx = 1 - leftRight
        /\ (MayWrite(w) /\ wtok[w].incrs = 1) =>
               /\ LockToken_Idx(wtok[w]) = wtok[w].startIdx
               /\ wtok[w].startIdx = 1 - leftRight
        /\ (MayWrite(w) /\ wtok[w].incrs = 2) =>
               /\ LockToken_Idx(wtok[w]) = 1 - wtok[w].startIdx
               /\ leftRight = wtok[w].startIdx

C11_Witness ==
    \E w \in Writers :
        /\ wpc[w] = "body" /\ wtok[w].incrs = 2
        /\ wtok[w].startIdx = 0 /\ leftRight = 0

\* The slots of the counters array a refCount addresses: shards 0..maxPid at
\* its offset.
slotsOf(id) == {idxForP(rcs[id], p) : p \in 0..maxPid(rcs[id])}

\* The step leaves the slots of every refCount other than id as they were.
OthersUntouched(id) ==
    \A o \in (DOMAIN rcs) \ {id} :
        \A i \in slotsOf(o) : counters'[i] = counters[i]

\* C12: acquire(), release(), wait() and clear() on one refCount leave the
\* slots of the refCount that shares its counters array unchanged.
C12_CoResidentIsolation ==
    [][/\ \A r \in Readers :
            /\ acquire(r) => OthersUntouched(rrc[r])
            /\ (RUnlock(r) /\ ~RLockToken_panics(rtok[r])) => OthersUntouched(rtok[r].rc)
            /\ (release_agg(r) \/ release_send(r)) => OthersUntouched(rtok[r].rc)
       /\ \A w \in Writers :
            (wait_scan(w) \/ wait_add(w) \/ wait_recv(w) \/ clear_agg(w) \/ clear_shard(w)) =>
                OthersUntouched(drained(w))]_vars

C12_Witness ==
    /\ slotsOf(1) \cap slotsOf(2) = {}
    /\ \E i \in slotsOf(1), j \in slotsOf(2) : counters[i] > 0 /\ counters[j] > 0

\* The sum of the slots of shards p..maxPid of a refCount.
RECURSIVE sumShards(_, _)
sumShards(id, p) ==
    IF p > maxPid(rcs[id]) THEN 0
    ELSE counters[idxForP(rcs[id], p)] + sumShards(id, p + 1)

\* The readers that hold an unreleased registration on a refCount.
RegisteredOn(id) ==
    {r \in Readers : \/ rpc[r] = "rl_load1" /\ rrc[r] = id
                     \/ Holding(r) /\ rtok[r].rc = id}

\* C13: neither the aggregation slot of a refCount nor the sum of its shard
\* slots is ever below 0.
C13_NeverNegative ==
    \A id \in DOMAIN rcs :
        /\ counters[idxForP(rcs[id], 0)] >= 0
        /\ sumShards(id, 1) >= 0

\* C13 as amended: until the first wait() on a refCount its aggregation slot
\* is 0, no shard slot is below 0 and the shard slots sum to the number of
\* unreleased registrations, whatever the readers and a writer draining the
\* other refCount do.
C13_NonNegativeBeforeWait ==
    \A id \in (DOMAIN rcs) \ waited :
        /\ counters[idxForP(rcs[id], 0)] = 0
        /\ \A p \in 1..maxPid(rcs[id]) : counters[idxForP(rcs[id], p)] >= 0
        /\ sumShards(id, 1) = Cardinality(RegisteredOn(id))

C13_Witness ==
    \E id \in (DOMAIN rcs) \ waited :
        /\ waited # {}
        /\ sumShards(id, 1) = NumReaders
        /\ \E w \in Writers : wpc[w] = "w_scan" /\ wi[w] > 1

\* The writer is inside clear() on the refCount it has drained.
InClear(w) == wpc[w] \in {"c_agg", "c_shard"}

\* The writer is inside wait().
InWait(w) == wpc[w] \in {"w_scan", "w_add", "w_recv"}

\* An acquire() or release() on a refCount is about to run or is running.
InFlightOn(id) ==
    {r \in Readers : \/ rpc[r] = "rl_acquire" /\ rrc[r] = id
                     \/ rpc[r] \in {"rel_agg", "rel_send"} /\ rtok[r].rc = id}

\* C14: while the writer resets a drained refCount, no acquire() or release()
\* on it is in flight or still to come, and no reader holds an unreleased
\* registration on it.
C14_ClearIsQuiescent ==
    \A w \in Writers :
        InClear(w) =>
            /\ InFlightOn(drained(w)) = {}
            /\ RegisteredOn(drained(w)) = {}

\* C15: when wait() on a refCount returns, no reader holds an unreleased
\* registration on it: every acquire() that completed before the return was
\* counted and waited for.
C15_WaitCountsEveryRegistration ==
    [][\A w \in Writers :
          (InWait(w) /\ wpc'[w] = "c_agg") => RegisteredOn(drained(w)) = {}]_vars

\* The versionIndex bit of the state word.
versionIndex == state % 2

\* C16: the first drain of the handoff, entered with the leftRight flip, and
\* the second, entered with the versionIndex flip, both wait on refCounts[v],
\* v being the versionIndex bit at the start of the handoff.
C16_DrainsOldVersionIndex ==
    [][\A w \in Writers :
          (Next_toggleLeftRight(w) \/ Next_toggleVersionIndex(w)) =>
              refCounts'[nonVersionIndex(wst'[w])] = refCounts[versionIndex]]_vars

\* C16 as amended: the first drain waits on refCounts[1 - v], the refCount
\* the versionIndex bit does not select, and the second drain, entered with
\* the versionIndex flip, on refCounts[v]; a drain stays on its refCount.
C16_DrainsNonVersionIndex ==
    [][\A w \in Writers :
          /\ Next_toggleLeftRight(w) =>
                 refCounts'[nonVersionIndex(wst'[w])] = refCounts[1 - versionIndex]
          /\ Next_toggleVersionIndex(w) =>
                 refCounts'[nonVersionIndex(wst'[w])] = refCounts[versionIndex]
          /\ ((InWait(w) \/ InClear(w)) /\ wphase'[w] = wphase[w]) =>
                 refCounts'[nonVersionIndex(wst'[w])] = drained(w)]_vars

C16_Witness ==
    \E w \in Writers :
        /\ wpc[w] = "w_recv" /\ wphase[w] = 2
        /\ state = 3
        /\ drained(w) = refCounts[0]

\* C17: for every context id getp() returns, also one at or above the shard
\* count fixed at allocation, acquire() increments a slot inside the counters
\* array that belongs to one of shards 1..maxPid of its own refCount, never
\* to shard 0.
C17_ShardZeroReserved ==
    [][\A r \in Readers :
          acquire_grown(r) =>
              LET rc == rcs[rrc[r]] IN
              /\ rtk'[r] \in DOMAIN counters
              /\ counters'[rtk'[r]] = AddInt32(counters[rtk'[r]], 1)
              /\ rtk'[r] \in {idxForP(rc, p) : p \in 1..maxPid(rc)}
              /\ rtk'[r] # idxForP(rc, 0)]_vars

\* The number of bits needed to address n shards, n a power of two.
RECURSIVE Log2(_)
Log2(n) == IF n <= 1 THEN 0 ELSE 1 + Log2(n \div 2)

\* The allocator's last call made a new counters array.
ReturnedFresh(a) ==
    alloc[a].pc = "idle" /\ alloc[a].ret # NilRc /\ alloc[a].ret.offset = 0

\* C18: a freshly allocated refCount, gomaxprocs() having returned P, has
\* pbits = log2(roundNearestPowerOf2(P + 1)) and a counters array of
\* roundNearestPowerOf2(P + 1) * 2^slotsPerCacheLineBits slots.
C18_FreshShape ==
    \A a \in Allocators :
        ReturnedFresh(a) =>
            LET shards == roundNearestPowerOf2(alloc[a].hint + 1) IN
            /\ alloc[a].ret.pbits = Log2(shards)
            /\ arrlen[alloc[a].ret.arr] = shards * 2 ^ slotsPerCacheLineBits

\* C19: every refCount handed out or pooled has an offset in
\* 0..2^slotsPerCacheLineBits - 1, and no two refCounts handed out have the
\* same counters array and the same offset.
C19_OffsetsDistinct ==
    /\ \A e \in BagToSet(pool) \cup BagToSet(handed) :
          /\ e.offset >= 0
          /\ e.offset < 2 ^ slotsPerCacheLineBits
    /\ \A e \in BagToSet(handed) : CopiesIn(e, handed) = 1
    /\ \A e1, e2 \in BagToSet(handed) :
          (e1.arr = e2.arr /\ e1.offset = e2.offset) => e1 = e2

C19_Witness ==
    /\ Len(arrlen) >= 2
    /\ \E e \in BagToSet(handed) : e.offset = 2 ^ slotsPerCacheLineBits - 1
    /\ \E e \in BagToSet(handed) : e.arr = Len(arrlen) /\ e.offset > 0

\* The writer holds the writer gate: its Lock() is past l.wmu.Lock() and its
\* token has not reached the terminal step.
HoldsGate(w) == wmu /\ PastGate(w)

\* The two values differ in exactly one of bits 0 and 1.
OneBitApart(a, b) ==
    (a % 2 # b % 2) # (Shr(a, 1) % 2 # Shr(b, 1) % 2)

\* C20: the state word is in 0..3; only the writer holding the gate stores to
\* it, one bit per store, leftRight before the first drain and versionIndex
\* after it; when no writer is inside the step 1 -> 2 handoff the two bits
\* are equal (state is 0 or 3).
C20_StateWord ==
    /\ [](/\ state \in 0..3
          /\ (\A w \in Writers : ~InHandoff(w)) => state \in {0, 3})
    /\ [][state' # state =>
            /\ OneBitApart(state, state')
            /\ \E w \in Writers :
                  /\ HoldsGate(w)
                  /\ \A v \in Writers \ {w} : ~HoldsGate(v)
                  /\ \/ /\ Next_toggleLeftRight(w)
                        /\ leftRight' # leftRight
                        /\ versionIndex = leftRight
                     \/ /\ Next_toggleVersionIndex(w)
                        /\ versionIndex' # versionIndex
                        /\ wphase[w] = 1
                        /\ versionIndex' = leftRight]_vars

C20_Witness ==
    /\ state = 0
    /\ ndone = 2
    /\ \A w \in Writers : ~InHandoff(w)

====
